---- MODULE Spec2Model ----
(***************************************************************************)
(* Model of src/src/lib.rs: Flags::new, grep, line_matches, format_result. *)
(*                                                                         *)
(* Strings are sequences of one-character strings.  A behaviour is either  *)
(* one call of grep (pc in open/read/done/failed), with the file system    *)
(* answering each open and each line read, or one call of line_matches or  *)
(* of format_result on arguments drawn from bounded sets.                  *)
(***************************************************************************)
EXTENDS Integers, Sequences, FiniteSets

VARIABLES
    tokens,          \* the argument of Flags::new
    flags,           \* the Flags record
    pattern,         \* grep / line_matches argument
    files,           \* grep / format_result argument
    pc,              \* position in the call
    fi,              \* position of the `for &file_name in files` iterator
    file_name,       \* loop variable of the outer loop / format_result argument
    file_has_match,  \* local of the outer loop body
    index,           \* counter of enumerate(): items yielded so far
    nread,           \* reader state: lines of the open file consumed so far
    line,            \* the line last read / line_matches, format_result argument
    line_number,     \* local of the inner loop body / format_result argument
    matched,         \* value returned by the last line_matches call
    result,          \* value returned by the last format_result call
    results,         \* the Vec being accumulated
    ret,             \* value returned by grep
    origin,          \* history: for each entry of results, where it came from
    nmatch,          \* history: per file position, number of lines that matched
    opened,          \* history: positions in files whose open succeeded
    failedAt         \* history: position in files of the failing file, 0 if none

vars == <<tokens, flags, pattern, files, pc, fi, file_name, file_has_match,
          index, nread, line, line_number, matched, result, results, ret,
          origin, nmatch, opened, failedAt>>

----------------------------------------------------------------------------
(* Bounds and input domains *)

MaxLen == 2      \* longest line / pattern given to line_matches, format_result
MaxFiles == 2    \* longest file list
MaxLines == 2    \* most lines read from one file

Alphabet == {"a", "A", "b"}

RECURSIVE StrOfLen(_)
StrOfLen(n) ==
    IF n = 0 THEN {<<>>}
    ELSE {Append(s, c) : s \in StrOfLen(n - 1), c \in Alphabet}

Str == UNION {StrOfLen(n) : n \in 0..MaxLen}

\* lines the files hold and patterns searched for during a grep call
GrepLines == {<<"A", "b">>, <<"b">>}
GrepPatterns == {<<"a", "b">>, <<"b">>, <<>>}

\* line numbers handed to format_result when it is called on its own
LineNumbers == {1, 7, 10, 42}

FlagTokens == {"-n", "-l", "-i", "-v", "-x"}

----------------------------------------------------------------------------
(* Library functions the code calls *)

Digits == <<"0", "1", "2", "3", "4", "5", "6", "7", "8", "9">>

\* Display for usize, as used by format!("{}", line_number)
RECURSIVE ToDecimal(_)
ToDecimal(n) ==
    IF n < 10 THEN <<Digits[n + 1]>>
    ELSE ToDecimal(n \div 10) \o <<Digits[(n % 10) + 1]>>

LowerChar(c) == IF c = "A" THEN "a" ELSE IF c = "B" THEN "b" ELSE c

\* str::to_lowercase
to_lowercase(s) == [i \in 1..Len(s) |-> LowerChar(s[i])]

\* does needle occur in hay starting at offset i (0-based)
RECURSIVE MatchesAt(_, _, _, _)
MatchesAt(hay, needle, i, k) ==
    IF k > Len(needle) THEN TRUE
    ELSE IF i + k > Len(hay) THEN FALSE
    ELSE IF hay[i + k] # needle[k] THEN FALSE
    ELSE MatchesAt(hay, needle, i, k + 1)

\* str::contains(&String): scan the offsets left to right
RECURSIVE ContainsFrom(_, _, _)
ContainsFrom(hay, needle, i) ==
    IF i > Len(hay) THEN FALSE
    ELSE IF MatchesAt(hay, needle, i, 1) THEN TRUE
    ELSE ContainsFrom(hay, needle, i + 1)

contains(hay, needle) == ContainsFrom(hay, needle, 0)

----------------------------------------------------------------------------
(* Flags *)

\* Flags::new where -v sets only the duplicate field `invert`
Flags_new_invertonly(toks) ==
    [ line_numbers      |-> "-n" \in toks,
      print_file_names  |-> "-l" \in toks,
      case_insensitive  |-> "-i" \in toks,
      invert_match      |-> FALSE,
      match_entire_line |-> "-x" \in toks,
      invert            |-> "-v" \in toks ]

Flags_new(toks) ==
    [ line_numbers      |-> "-n" \in toks,
      print_file_names  |-> "-l" \in toks,
      case_insensitive  |-> "-i" \in toks,
      invert_match      |-> "-v" \in toks,
      match_entire_line |-> "-x" \in toks,
      invert            |-> "-v" \in toks ]

----------------------------------------------------------------------------
(* line_matches and format_result *)

\* line_matches lower-casing the line but not the pattern
line_matches_rawpattern(l, p, f) ==
    LET ll == IF f.case_insensitive THEN to_lowercase(l) ELSE l
        m  == IF f.match_entire_line THEN ll = p ELSE contains(ll, p)
    IN  IF f.invert_match THEN ~m ELSE m

\* line_matches testing containment under -x too
line_matches_substring(l, p, f) ==
    LET ll == IF f.case_insensitive THEN to_lowercase(l) ELSE l
        pp == IF f.case_insensitive THEN to_lowercase(p) ELSE p
        m  == contains(ll, pp)
    IN  IF f.invert_match THEN ~m ELSE m

line_matches(l, p, f) ==
    LET ll == IF f.case_insensitive THEN to_lowercase(l) ELSE l
        pp == IF f.case_insensitive THEN to_lowercase(p) ELSE p
        m  == IF f.match_entire_line THEN ll = pp ELSE contains(ll, pp)
    IN  IF f.invert_match THEN ~m ELSE m

\* format_result prefixing the file name as soon as there is one file
format_result_anyfile(fname, lnum, l, f, fs) ==
    IF f.print_file_names THEN fname
    ELSE IF f.line_numbers THEN
        IF Len(fs) > 0 THEN fname \o <<":">> \o ToDecimal(lnum) \o <<":">> \o l
        ELSE ToDecimal(lnum) \o <<":">> \o l
    ELSE
        IF Len(fs) > 0 THEN fname \o <<":">> \o l
        ELSE l

format_result(fname, lnum, l, f, fs) ==
    IF f.print_file_names THEN fname
    ELSE IF f.line_numbers THEN
        IF Len(fs) > 1 THEN fname \o <<":">> \o ToDecimal(lnum) \o <<":">> \o l
        ELSE ToDecimal(lnum) \o <<":">> \o l
    ELSE
        IF Len(fs) > 1 THEN fname \o <<":">> \o l
        ELSE l

----------------------------------------------------------------------------
(* grep *)

\* the i-th file name of a file list: "f1", "f2", ...
FileName(i) == <<"f">> \o ToDecimal(i)
FileList(k) == [i \in 1..k |-> FileName(i)]
FileLists == {FileList(k) : k \in 0..MaxFiles}

Pending == [tag |-> "Pending", val |-> <<>>]
Ok(v) == [tag |-> "Ok", val |-> v]
\* an io::Error carries no Vec
Err == [tag |-> "Err", val |-> <<>>]

GrepPC == {"open", "read", "done", "failed"}
InGrep == pc \in GrepPC

\* the enumerate index used as it is
LineNumber_zero(idx) == idx

\* line 52
LineNumber(idx) == idx + 1

\* the inner loop left by a `break` once the file name is recorded
AfterLine_break(has) ==
    IF flags.print_file_names /\ has THEN "open" ELSE "read"

\* lines 55-65: no `break` follows the push of the file name; whatever
\* file_has_match is, the inner loop goes on with the next line
AfterLine(has) == "read"

\* the loop body formatting the lower-cased copy of the line
LoopBody_lower(res, has, fname, idx, l) ==
    IF line_matches(l, pattern, flags) THEN
        IF flags.print_file_names THEN
            IF ~has THEN [results |-> Append(res, fname), has |-> TRUE]
            ELSE [results |-> res, has |-> has]
        ELSE
            [results |-> Append(res,
                 format_result(fname, LineNumber(idx),
                     IF flags.case_insensitive THEN to_lowercase(l) ELSE l,
                     flags, files)),
             has |-> has]
    ELSE [results |-> res, has |-> has]

\* the loop body without the file_has_match test of line 56
LoopBody_nocap(res, has, fname, idx, l) ==
    IF line_matches(l, pattern, flags) THEN
        IF flags.print_file_names THEN
            [results |-> Append(res, fname), has |-> TRUE]
        ELSE
            [results |-> Append(res,
                 format_result(fname, LineNumber(idx), l, flags, files)),
             has |-> has]
    ELSE [results |-> res, has |-> has]

\* the loop body inserting at the front instead of pushing at the back
LoopBody_front(res, has, fname, idx, l) ==
    IF line_matches(l, pattern, flags) THEN
        IF flags.print_file_names THEN
            IF ~has THEN [results |-> <<fname>> \o res, has |-> TRUE]
            ELSE [results |-> res, has |-> has]
        ELSE
            [results |-> <<format_result(fname, LineNumber(idx), l, flags,
                                         files)>> \o res,
             has |-> has]
    ELSE [results |-> res, has |-> has]

\* lines 54-64: what the loop body does to (results, file_has_match) for the
\* line l read at enumerate index idx of file fname
LoopBody(res, has, fname, idx, l) ==
    IF line_matches(l, pattern, flags) THEN
        IF flags.print_file_names THEN
            IF ~has THEN [results |-> Append(res, fname), has |-> TRUE]
            ELSE [results |-> res, has |-> has]
        ELSE
            [results |-> Append(res,
                 format_result(fname, LineNumber(idx), l, flags, files)),
             has |-> has]
    ELSE [results |-> res, has |-> has]

Locals ==
    /\ fi = 0
    /\ file_name = <<>>
    /\ file_has_match = FALSE
    /\ index = 0
    /\ nread = 0
    /\ line_number = 0
    /\ matched = FALSE
    /\ result = <<>>
    /\ results = <<>>
    /\ ret = Pending
    /\ origin = <<>>
    /\ opened = {}
    /\ failedAt = 0

\* a call grep(pattern, &Flags::new(tokens), files)
InitGrep ==
    /\ tokens \in SUBSET FlagTokens
    /\ flags = Flags_new(tokens)
    /\ pattern \in GrepPatterns
    /\ files \in FileLists
    /\ nmatch = [i \in 1..Len(files) |-> 0]
    /\ line = <<>>
    /\ pc = "open"
    /\ Locals

\* a call line_matches(line, pattern, &Flags::new(tokens))
InitLineMatches ==
    /\ tokens \in SUBSET FlagTokens
    /\ flags = Flags_new(tokens)
    /\ pattern \in Str
    /\ line \in Str
    /\ files = <<>>
    /\ nmatch = <<>>
    /\ pc = "match_args"
    /\ Locals

\* a call format_result(file_name, line_number, line, &Flags::new(tokens), files)
InitFormatResult ==
    /\ tokens \in SUBSET FlagTokens
    /\ flags = Flags_new(tokens)
    /\ pattern = <<>>
    /\ line \in Str
    /\ files \in FileLists
    /\ nmatch = <<>>
    /\ pc = "format_args"
    /\ fi = 0
    /\ file_name \in {FileName(i) : i \in 1..MaxFiles}
    /\ line_number \in LineNumbers
    /\ file_has_match = FALSE
    /\ index = 0
    /\ nread = 0
    /\ matched = FALSE
    /\ result = <<>>
    /\ results = <<>>
    /\ ret = Pending
    /\ origin = <<>>
    /\ opened = {}
    /\ failedAt = 0

Init == InitGrep \/ InitLineMatches \/ InitFormatResult

\* line 46, File::open succeeds; lines 47-50 set up the per-file locals
OpenOk ==
    /\ pc = "open"
    /\ fi < Len(files)
    /\ fi' = fi + 1
    /\ file_name' = files[fi + 1]
    /\ file_has_match' = FALSE
    /\ index' = 0
    /\ nread' = 0
    /\ opened' = opened \cup {fi + 1}
    /\ pc' = "read"
    /\ UNCHANGED <<tokens, flags, pattern, files, line, line_number, matched,
                   result, results, ret, origin, nmatch, failedAt>>

\* a failed open that skips the file and goes on with the next one
OpenFail_skip ==
    /\ pc = "open"
    /\ fi < Len(files)
    /\ fi' = fi + 1
    /\ file_name' = files[fi + 1]
    /\ failedAt' = fi + 1
    /\ UNCHANGED <<tokens, flags, pattern, files, pc, file_has_match, index,
                   nread, line, line_number, matched, result, results, ret,
                   origin, nmatch, opened>>

\* line 46, File::open fails: `?` returns the error
OpenFail ==
    /\ pc = "open"
    /\ fi < Len(files)
    /\ fi' = fi + 1
    /\ file_name' = files[fi + 1]
    /\ failedAt' = fi + 1
    /\ ret' = Err
    /\ pc' = "failed"
    /\ UNCHANGED <<tokens, flags, pattern, files, file_has_match, index, nread,
                   line, line_number, matched, result, results, origin, nmatch,
                   opened>>

\* lines 50-64, the reader yields Ok(l): one iteration of the inner loop
ReadOk ==
    /\ pc = "read"
    /\ nread < MaxLines
    /\ \E l \in GrepLines :
        LET m    == line_matches(l, pattern, flags)
            body == LoopBody(results, file_has_match, file_name, index, l)
        IN  /\ line' = l
            /\ nread' = nread + 1
            /\ index' = index + 1
            /\ line_number' = LineNumber(index)
            /\ matched' = m
            /\ results' = body.results
            /\ file_has_match' = body.has
            /\ result' = IF m /\ ~flags.print_file_names
                         THEN body.results[Len(body.results)] ELSE result
            /\ origin' = IF Len(body.results) # Len(results)
                         THEN Append(origin,
                                [file |-> fi, pos |-> nread + 1, line |-> l])
                         ELSE origin
            /\ nmatch' = IF m THEN [nmatch EXCEPT ![fi] = @ + 1] ELSE nmatch
            /\ pc' = AfterLine(body.has)
    /\ UNCHANGED <<tokens, flags, pattern, files, fi, file_name, ret,
                   opened, failedAt>>

\* line 51, the reader yields Err: `?` returns the error
ReadErr ==
    /\ pc = "read"
    /\ nread < MaxLines
    /\ index' = index + 1
    /\ failedAt' = fi
    /\ ret' = Err
    /\ pc' = "failed"
    /\ UNCHANGED <<tokens, flags, pattern, files, fi, file_name, file_has_match,
                   nread, line, line_number, matched, result, results, origin,
                   nmatch, opened>>

\* line 50/65, the reader is exhausted: the inner loop ends and its locals
\* go out of scope
ReadEof ==
    /\ pc = "read"
    /\ pc' = "open"
    /\ file_has_match' = FALSE
    /\ index' = 0
    /\ nread' = 0
    /\ line' = <<>>
    /\ line_number' = 0
    /\ matched' = FALSE
    /\ result' = <<>>
    /\ UNCHANGED <<tokens, flags, pattern, files, fi, file_name, results, ret,
                   origin, nmatch, opened, failedAt>>

\* line 68, the outer loop is exhausted
Return ==
    /\ pc = "open"
    /\ fi = Len(files)
    /\ ret' = Ok(results)
    /\ pc' = "done"
    /\ UNCHANGED <<tokens, flags, pattern, files, fi, file_name, file_has_match,
                   index, nread, line, line_number, matched, result, results,
                   origin, nmatch, opened, failedAt>>

CallLineMatches ==
    /\ pc = "match_args"
    /\ matched' = line_matches(line, pattern, flags)
    /\ pc' = "match_ret"
    /\ UNCHANGED <<tokens, flags, pattern, files, fi, file_name, file_has_match,
                   index, nread, line, line_number, result, results, ret,
                   origin, nmatch, opened, failedAt>>

CallFormatResult ==
    /\ pc = "format_args"
    /\ result' = format_result(file_name, line_number, line, flags, files)
    /\ pc' = "format_ret"
    /\ UNCHANGED <<tokens, flags, pattern, files, fi, file_name, file_has_match,
                   index, nread, line, line_number, matched, results, ret,
                   origin, nmatch, opened, failedAt>>

Next ==
    \/ OpenOk
    \/ OpenFail
    \/ ReadOk
    \/ ReadErr
    \/ ReadEof
    \/ Return
    \/ CallLineMatches
    \/ CallFormatResult

Spec == Init /\ [][Next]_vars

----------------------------------------------------------------------------
(* Properties *)

IsSuffix(s, t) ==
    /\ Len(s) <= Len(t)
    /\ SubSeq(t, Len(t) - Len(s) + 1, Len(t)) = s

IsPrefix(s, t) ==
    /\ Len(s) <= Len(t)
    /\ SubSeq(t, 1, Len(s)) = s

\* C1: once an open or a line read has failed, grep has stopped with an I/O
\* error that carries no result entry (whatever had been accumulated), and no
\* file after the failing one has been opened.
C1_FailFast ==
    InGrep =>
        /\ (failedAt # 0) <=> (pc = "failed")
        /\ (failedAt # 0) =>
            /\ ret.tag = "Err"
            /\ ret.val = <<>>
            /\ \A k \in opened : k <= failedAt
            /\ fi = failedAt
        /\ (ret.tag = "Ok") => (failedAt = 0 /\ pc = "done")

\* a line read fails after entries were accumulated and before the last file
C1_Witness ==
    /\ pc = "failed"
    /\ Len(results) > 0
    /\ failedAt \in opened
    /\ failedAt < Len(files)

\* C2: with -l, a successful grep returns the name of each file that has at
\* least one matching line exactly once, and nothing for the other files.
C2_FilenamesOnly ==
    (pc = "done" /\ flags.print_file_names) =>
        /\ ret.tag = "Ok"
        /\ \A k \in 1..Len(files) :
              Cardinality({j \in 1..Len(ret.val) : ret.val[j] = files[k]})
                  = IF nmatch[k] >= 1 THEN 1 ELSE 0
        /\ \A j \in 1..Len(ret.val) :
              \E k \in 1..Len(files) : ret.val[j] = files[k]

\* one file with two matching lines, another one opened with none
C2_Witness ==
    /\ pc = "done"
    /\ flags.print_file_names
    /\ \E k \in opened : nmatch[k] >= 2
    /\ \E k \in opened : nmatch[k] = 0

\* C3 (state part): the entries are in the order of (file position, line
\* position) they were produced from, and a successful grep returns them so.
C3_Ordered ==
    InGrep =>
        /\ Len(origin) = Len(results)
        /\ \A i, j \in 1..Len(results) :
              i < j =>
                  \/ origin[i].file < origin[j].file
                  \/ /\ origin[i].file = origin[j].file
                     /\ origin[i].pos < origin[j].pos
        /\ \A j \in 1..Len(results) :
              IF flags.print_file_names
              THEN results[j] = files[origin[j].file]
              ELSE /\ IsSuffix(origin[j].line, results[j])
                   /\ Len(files) > 1 =>
                          IsPrefix(files[origin[j].file], results[j])
        /\ (pc = "done") => (ret = Ok(results))

\* C3 (step part): every step leaves results alone or appends one entry.
C3_AppendOnly ==
    [][InGrep =>
          \/ results' = results
          \/ /\ Len(results') = Len(results) + 1
             /\ SubSeq(results', 1, Len(results)) = results]_vars

\* C3: the result sequence is in insertion order and only grows by appending.
C3_InsertionOrder == []C3_Ordered /\ C3_AppendOnly

\* entries of two files, two of them of the same file
C3_Witness ==
    /\ pc = "done"
    /\ \E i, j \in 1..Len(results) :
          i < j /\ origin[i].file = origin[j].file
    /\ \E i, j \in 1..Len(results) : origin[i].file < origin[j].file
    /\ ret.val = results

\* the states in which `matched` holds the value of line_matches(line, ...)
Fresh == pc = "match_ret" \/ (pc = "read" /\ nread >= 1)

FoldIf(s) == IF flags.case_insensitive THEN to_lowercase(s) ELSE s

\* p occurs in l as a contiguous piece: l = u \o p \o v for some u and v
Occurs(p, l) ==
    \E i \in 0..Len(l) : \E j \in i..Len(l) : SubSeq(l, i + 1, j) = p

\* the rendering table of a matched line, count being the number of files
Table(fname, n, l, f, count) ==
    IF f.print_file_names THEN fname
    ELSE CASE f.line_numbers /\ count > 1 ->
                  fname \o <<":">> \o ToDecimal(n) \o <<":">> \o l
           [] f.line_numbers /\ count <= 1 -> ToDecimal(n) \o <<":">> \o l
           [] ~f.line_numbers /\ count > 1 -> fname \o <<":">> \o l
           [] ~f.line_numbers /\ count <= 1 -> l

\* C4: format_result renders by the table, and every entry grep holds is the
\* table's rendering of its line with count = the length of the file list.
C4_Rendering ==
    /\ (pc = "format_ret") =>
           result = Table(file_name, line_number, line, flags, Len(files))
    /\ InGrep =>
           \A j \in 1..Len(results) :
               results[j] = Table(files[origin[j].file], origin[j].pos,
                                  origin[j].line, flags, Len(files))

\* two files given, only one of them has matches, entries carry its name
C4_Witness ==
    /\ pc = "done"
    /\ ~flags.print_file_names
    /\ flags.line_numbers
    /\ Len(files) = 2
    /\ nmatch[1] = 0
    /\ 1 \in opened
    /\ nmatch[2] >= 1
    /\ results[1] = files[2] \o <<":", "1", ":">> \o origin[1].line

\* C5: without -x and -v, line_matches is literal substring containment, both
\* sides lower-cased iff -i is set; the empty pattern matches every line.
C5_Substring ==
    (Fresh /\ ~flags.match_entire_line /\ ~flags.invert_match) =>
        /\ matched <=> Occurs(FoldIf(pattern), FoldIf(line))
        /\ (pattern = <<>>) => matched

\* an upper-case pattern found in a lower-case line thanks to -i
C5_Witness ==
    /\ pc = "match_ret"
    /\ flags.case_insensitive
    /\ ~flags.match_entire_line
    /\ ~flags.invert_match
    /\ pattern = <<"A">>
    /\ line = <<"b", "a">>
    /\ matched

\* C6, as claimed: with -x, line_matches is true iff the (case-folded) line
\* equals the (case-folded) pattern, whatever the other flags are.
C6_Original ==
    (Fresh /\ flags.match_entire_line) =>
        (matched <=> (FoldIf(line) = FoldIf(pattern)))

\* C6, amended: with -x and without -v, line_matches is true iff the line and
\* the pattern have the same length and the same characters, compared
\* lower-cased iff -i is set.
C6_WholeLine ==
    (Fresh /\ flags.match_entire_line /\ ~flags.invert_match) =>
        (matched <=>
            /\ Len(line) = Len(pattern)
            /\ \A i \in 1..Len(line) :
                  IF flags.case_insensitive
                  THEN LowerChar(line[i]) = LowerChar(pattern[i])
                  ELSE line[i] = pattern[i])

\* the pattern is a proper piece of the line: no match under -x
C6_Witness ==
    /\ pc = "match_ret"
    /\ flags.match_entire_line
    /\ ~flags.invert_match
    /\ pattern = <<"a">>
    /\ line = <<"A", "b">>
    /\ flags.case_insensitive
    /\ ~matched

Toggle(toks) == IF "-v" \in toks THEN toks \ {"-v"} ELSE toks \cup {"-v"}

\* C7 (law): line_matches under the flags with -v toggled is the negation.
C7_Law ==
    Fresh => (matched <=> ~line_matches(line, pattern, Flags_new(Toggle(tokens))))

\* C7 (consequence): without -l, a line read is reported iff the run with -v
\* toggled would not report it.
C7_Partition ==
    [][(InGrep /\ ~flags.print_file_names /\ nread' = nread + 1) =>
          ((Len(results') = Len(results) + 1) <=>
              ~line_matches(line', pattern, Flags_new(Toggle(tokens))))]_vars

\* C7: the invert law, and the partition of a file's lines it gives.
C7_Invert == []C7_Law /\ C7_Partition

\* under -v -x, a file of two lines of which exactly one is reported
C7_Witness ==
    /\ pc = "read"
    /\ flags.invert_match
    /\ flags.match_entire_line
    /\ ~flags.print_file_names
    /\ nread = 2
    /\ nmatch[fi] = 1
    /\ Len(results) = 1

\* C8 (state part): with -i, an entry for a line ends with the line exactly
\* as it was read.
C8_OriginalCase ==
    (InGrep /\ flags.case_insensitive /\ ~flags.print_file_names) =>
        \A j \in 1..Len(results) :
            /\ IsSuffix(origin[j].line, results[j])
            /\ origin[j].line # to_lowercase(origin[j].line) =>
                   ~IsSuffix(to_lowercase(origin[j].line), results[j])

\* C8: with -i the entries keep the original case, and the pattern is never
\* changed.
C8_Frame == []C8_OriginalCase /\ [][pattern' = pattern]_vars

\* a line that matches only thanks to -i is reported with its upper case
C8_Witness ==
    /\ pc = "done"
    /\ flags.case_insensitive
    /\ ~flags.print_file_names
    /\ ~flags.invert_match
    /\ pattern = <<"a", "b">>
    /\ Len(files) = 1
    /\ ~flags.line_numbers
    /\ ret.val = << <<"A", "b">> >>

\* C9, as claimed: with -l, once the match of a file is recorded no further
\* line of that file is read and no read failure can follow.
C9_Original ==
    (InGrep /\ flags.print_file_names /\ file_has_match) =>
        /\ nread = origin[Len(origin)].pos
        /\ pc # "failed"

\* C9, amended: with -l, the step that records the match of a file stays in
\* the scan of that file; every later step of the scan leaves results alone,
\* and a read failure then still ends the search with an error.
C9_KeepsScanning ==
    [][(InGrep /\ flags.print_file_names) =>
          /\ (results' # results) => (pc' = "read" /\ file_has_match')
          /\ (file_has_match /\ pc = "read") =>
                /\ results' = results
                /\ pc' \in {"read", "open", "failed"}
                /\ (failedAt' # failedAt) => (pc' = "failed" /\ ret' = Err)]_vars

\* with -l, a line read fails after the match of the file was recorded
C9_Witness ==
    /\ pc = "failed"
    /\ flags.print_file_names
    /\ file_has_match
    /\ results = <<file_name>>
    /\ nread >= 1
    /\ ret = Err

\* the decimal number an entry carries: what is left of the entry once the
\* file name prefix (more than one file) and the ":" and line are taken off
NumberOf(e, fname, l) ==
    LET skip == IF Len(files) > 1 THEN Len(fname) + 1 ELSE 0
    IN  SubSeq(e, skip + 1, Len(e) - Len(l) - 1)

\* C10: with -n and without -l, the number of an entry is the 1-based
\* position of its line among all lines read from its file, and the line
\* number of the k-th line read from any file is k.
C10_LineNumbers ==
    InGrep =>
        /\ (pc = "read" /\ nread >= 1) => line_number = nread
        /\ (flags.line_numbers /\ ~flags.print_file_names) =>
              \A j \in 1..Len(results) :
                  NumberOf(results[j], files[origin[j].file], origin[j].line)
                      = ToDecimal(origin[j].pos)

\* -n -v: the second file reports its second line only, numbered 2, after an
\* entry of the first file
C10_Witness ==
    /\ pc = "done"
    /\ flags.line_numbers
    /\ flags.invert_match
    /\ ~flags.print_file_names
    /\ Len(files) = 2
    /\ nmatch[1] >= 1
    /\ nmatch[2] = 1
    /\ results[Len(results)] = files[2] \o <<":", "2", ":">> \o origin[Len(origin)].line

====
